---------------------------- MODULE Spec2Model ----------------------------
(* Model of src/src/multi_agent.py: the Tavily search helpers            *)
(* (search_web, format_search_results, search_tool), the research_agent   *)
(* invocations that run_subagent gathers, and the lead_agent run started  *)
(* by main.                                                               *)
(*                                                                        *)
(* Text is a sequence of string tokens: an f-string is the sequence of    *)
(* its literal pieces and interpolated values, += and join are \o.        *)
(* A dict is a function whose DOMAIN is the set of keys present.          *)
EXTENDS Naturals, Sequences, FiniteSets, TLC

VARIABLES
    search_results,  \* argument handed to format_search_results
    content_list,    \* outcome of format_search_results on search_results
    fmtPc,           \* "input" | "formatted"
    api_key,         \* value of os.getenv("TAVILY_API_KEY")
    leadPc,          \* lead_agent.run: "model" | "tools" | "done" | "aborted"
    rounds,          \* number of run_subagent calls made so far in the run
    calls,           \* the run_subagent calls of the current lead response
    report,          \* TRUE once main has printed result.output
    searches,        \* search_tool calls made while the current response is served
    searched,        \* TRUE once search_tool has been called in the run
    networkCalled    \* TRUE once tavily_client.search has been reached

fmtVars == <<search_results, content_list, fmtPc>>
runVars == <<api_key, leadPc, rounds, calls, report, searches, searched, networkCalled>>
vars == <<search_results, content_list, fmtPc, api_key, leadPc, rounds, calls,
          report, searches, searched, networkCalled>>

----------------------------------------------------------------------------
(* Bounds *)

\* longest "results" list of a provider response
MaxResults == 2
\* most subtasks the lead model puts in one response (over all its tool calls)
MaxTasks == 2
\* most run_subagent tool calls in one lead model response
MaxParallel == 2
\* most run_subagent calls the lead model makes in one run
MaxRounds == 4
\* most search_tool calls the worker models make while one lead response is served
MaxSearches == 1

\* line 196: "Maximum of 2 follow-up research rounds after initial research"
FollowUpCap == 2

----------------------------------------------------------------------------
(* Python values *)

None == "<None>"

\* bool(v) for the str-or-None values the code tests
Truthy(v) == v \notin {"", None}

\* str(v) as an f-string renders it
Str(v) == IF v = None THEN "None" ELSE v

\* d.get(k, default)
Get(d, k, default) == IF k \in DOMAIN d THEN d[k] ELSE default

EmptyDict == [k \in {} |-> ""]

\* outcome of a call: a returned value or a raised exception
Return(v) == [raised |-> FALSE, exc |-> "", msg |-> <<>>, value |-> v]
Raise(cls, m) == [raised |-> TRUE, exc |-> cls, msg |-> m, value |-> <<>>]

\* classes a bare "except Exception" clause catches
ExceptionSubclasses ==
    {"Exception", "ValueError", "KeyError", "TypeError", "Timeout",
     "InvalidAPIKeyError", "UsageLimitExceededError"}

----------------------------------------------------------------------------
(* format_search_results *)

AISummaryBlock(answer) == <<"AI Summary: ", Str(answer)>>

SourceBlockSwappedDefaults(result) ==
    <<"Source: ", Str(Get(result, "title", "Unknown URL")), " (",
      Str(Get(result, "url", "Unknown Title")), ")\nContent: ",
      Str(result["content"])>>

\* lines 121-126: title/url with placeholders, then the f-string
SourceBlock(result) ==
    <<"Source: ", Str(Get(result, "title", "Unknown Title")), " (",
      Str(Get(result, "url", "Unknown URL")), ")\nContent: ",
      Str(result["content"])>>

\* line 119
HasContent(result) == "content" \in DOMAIN result /\ Truthy(result["content"])

\* lines 118-127: the loop over search_results["results"]
RECURSIVE AppendSources(_, _)
AppendSources(acc, results) ==
    IF results = <<>> THEN acc
    ELSE AppendSources(
             IF HasContent(Head(results))
             THEN Append(acc, SourceBlock(Head(results)))
             ELSE acc,
             Tail(results))

\* line 113
HasAnswer(sr) == "answer" \in DOMAIN sr /\ Truthy(sr["answer"])

\* lines 110-129
format_search_results(sr) ==
    LET withAnswer == IF HasAnswer(sr) THEN <<AISummaryBlock(sr["answer"])>> ELSE <<>>
    IN  IF "results" \in DOMAIN sr
        THEN AppendSources(withAnswer, sr["results"])
        ELSE withAnswer

----------------------------------------------------------------------------
(* Inputs of the formatter *)

TitleValues == {"T"}
UrlValues == {"U"}
ContentValues == {"", "C1", "C2"}
AnswerValues == {None, "", "A"}

ResultEntries ==
    UNION {
        {e \in [D -> TitleValues \cup UrlValues \cup ContentValues] :
            /\ "title" \in D => e["title"] \in TitleValues
            /\ "url" \in D => e["url"] \in UrlValues
            /\ "content" \in D => e["content"] \in ContentValues}
        : D \in SUBSET {"title", "url", "content"}}

ResultLists == UNION {[1..n -> ResultEntries] : n \in 0..MaxResults}

SearchResults ==
    {EmptyDict}
    \cup {[answer |-> a] : a \in AnswerValues}
    \cup {[results |-> r] : r \in ResultLists}
    \cup {[answer |-> a, results |-> r] : a \in AnswerValues, r \in ResultLists}

----------------------------------------------------------------------------
(* search_web and search_tool *)

ConfigMsg ==
    <<"TAVILY_API_KEY environment variable not set. ",
      "Get your API key from https://app.tavily.com/home">>

\* line 135: max_results: int = 3
DefaultMaxResults == 3

\* what tavily_client.search does with a request: a response or an exception
ProviderOk(response) == [ok |-> TRUE, response |-> response, exc |-> "", text |-> <<>>]
ProviderFails(cls, text) == [ok |-> FALSE, response |-> EmptyDict, exc |-> cls, text |-> text]

OneSource == [title |-> "T", url |-> "U", content |-> "C1"]

ProviderOutcomes(max_results) ==
    {ProviderOk(r) : r \in {sr \in {[results |-> <<>>], [results |-> <<OneSource>>]} :
                               Len(sr["results"]) <= max_results}}
    \cup {ProviderFails("Timeout", <<"timed out">>)}

\* what TavilyClient does when it is handed no key
ProviderRejectsKey == ProviderFails("InvalidAPIKeyError", <<"missing API key">>)

\* lines 72-93: tavily_client.search is reached only behind the key check
NetworkReached(key) == Truthy(key)

search_webNoKeyCheck(query, max_results, key, provider) ==
    LET p == IF Truthy(key) THEN provider ELSE ProviderRejectsKey
    IN  IF p.ok THEN Return(p.response)
        ELSE Raise("Exception", <<"Tavily API request failed: ">> \o p.text)

\* lines 71-97
search_web(query, max_results, key, provider) ==
    IF ~Truthy(key)
    THEN Raise("ValueError", ConfigMsg)
    ELSE IF provider.ok
         THEN Return(provider.response)
         ELSE IF provider.exc \in ExceptionSubclasses
              THEN Raise("Exception", <<"Tavily API request failed: ">> \o provider.text)
              ELSE Raise(provider.exc, provider.text)

\* "sep".join(list)
RECURSIVE Join(_, _)
Join(sep, list) ==
    IF list = <<>> THEN <<>>
    ELSE IF Len(list) = 1 THEN Head(list)
    ELSE Head(list) \o <<sep>> \o Join(sep, Tail(list))

CaughtOnlyProviderErrors(cls) == cls \in ExceptionSubclasses \ {"ValueError"}

\* line 158: except Exception as e
CaughtBySearchTool(cls) == cls \in ExceptionSubclasses

\* lines 146-160
search_tool(query, max_results, key, provider) ==
    LET sw == search_web(query, max_results, key, provider)
    IN  IF sw.raised
        THEN IF CaughtBySearchTool(sw.exc)
             THEN Return(<<"Error performing web search: ">> \o sw.msg)
             ELSE sw
        ELSE Return(<<"Web Search Query: ", query, "\n\n">>
                    \o Join("\n\n---\n\n", format_search_results(sw.value)))

----------------------------------------------------------------------------
(* Task, SubagentTasks and the research_agent invocations of run_subagent *)

\* lines 245-249
Tasks == [description : {"d1", "d2"}, focus_area : {"f"}]

\* lines 252-255: tasks: List[Task], any length
SubagentTasks == UNION {[1..n -> Tasks] : n \in 0..MaxTasks}

Queries == {"q"}
ApiKeys == {None, "tvly-key"}

\* line 269
Prompt(task) ==
    <<"Research Task: ", task.description, "\nFocus Area: ", task.focus_area>>

\* one research_agent.run(...) coroutine. tool is the latest search_tool result
\* in the worker model's context, searchFailed whether search_web raised in that
\* call, cause what made the invocation raise ("model" or "tool")
NewInvocation(task) ==
    [st |-> "running", prompt |-> Prompt(task), tool |-> <<>>,
     searchFailed |-> FALSE, cause |-> ""]

\* one run_subagent call the agent framework has scheduled
NewCall(tasks) ==
    [st |-> "called", batch |-> tasks, inv |-> <<>>, order |-> <<>>, results |-> <<>>]

\* result.output of invocation i, or the exception it ended with
WorkerOutput(i, w) ==
    [by |-> i, prompt |-> w.prompt, grounding |-> w.tool, ok |-> w.st = "done"]

\* awaiting each research_agent.run inside the loop instead of gathering them
IssueOneAndAwait(c) ==
    [c EXCEPT !.st = "awaiting",
              !.inv = [i \in 1..(IF Len(c.batch) = 0 THEN 0 ELSE 1) |->
                          NewInvocation(c.batch[i])]]

\* lines 266-273: the list comprehension makes one research_agent.run coroutine
\* per task, in task order; gather schedules them all and is then awaited
IssueAndGather(c) ==
    [c EXCEPT !.st = "awaiting",
              !.inv = [i \in 1..Len(c.batch) |-> NewInvocation(c.batch[i])]]

AnyFinished(c) == \E i \in DOMAIN c.inv : c.inv[i].st = "done"

AllSettled(c) == \A i \in DOMAIN c.inv : c.inv[i].st \in {"done", "failed"}

\* line 266: gather resolves once every awaitable has a result
AllFinished(c) == \A i \in DOMAIN c.inv : c.inv[i].st = "done"

\* line 266: without return_exceptions the first exception is raised
AnyFailed(c) == \E i \in DOMAIN c.inv : c.inv[i].st = "failed"

ResultsInCompletionOrder(c) ==
    [k \in DOMAIN c.order |-> WorkerOutput(c.order[k], c.inv[c.order[k]])]

\* lines 266-277: gather's list is in the order of its arguments
GatherResults(c) == [i \in DOMAIN c.inv |-> WorkerOutput(i, c.inv[i])]

\* the subtask the lead model plans at position i: neighbours differ, and a
\* batch of three repeats its first subtask
Subtask(i) ==
    [description |-> IF i % 2 = 1 THEN "d1" ELSE "d2", focus_area |-> "f"]

\* the batches the lead model hands over, one of each size
LeadBatches == {b \in SubagentTasks : \A i \in DOMAIN b : b[i] = Subtask(i)}

RECURSIVE TotalTasks(_)
TotalTasks(bs) == IF bs = <<>> THEN 0 ELSE Len(Head(bs)) + TotalTasks(Tail(bs))

----------------------------------------------------------------------------
(* Actions of one research run: main -> lead_agent.run -> run_subagent *)

InitRun ==
    /\ api_key \in ApiKeys
    /\ leadPc = "model"
    /\ rounds = 0
    /\ calls = <<>>
    /\ report = FALSE
    /\ searches = 0
    /\ searched = FALSE
    /\ networkCalled = FALSE

InitIdleFormatter ==
    /\ search_results = EmptyDict
    /\ content_list = <<>>
    /\ fmtPc = "input"

Init == InitRun /\ InitIdleFormatter

\* lead_agent.run: the lead model answers with one or more run_subagent tool
\* calls (line 259 registers the coroutine as a tool; nothing in the module
\* serialises its calls), and the agent schedules every call of the response
\* as a task of its own. How often the model asks is the model's choice: the
\* cap of line 196 is text of the instructions only.
LeadRequestTools ==
    /\ leadPc = "model"
    /\ \E k \in 1..MaxParallel :
         /\ rounds + k <= MaxRounds
         /\ \E bs \in [1..k -> LeadBatches] :
              /\ TotalTasks(bs) <= MaxTasks
              /\ calls' = [s \in 1..k |-> NewCall(bs[s])]
         /\ rounds' = rounds + k
    /\ leadPc' = "tools"
    /\ searches' = 0
    /\ UNCHANGED <<api_key, report, searched, networkCalled>>
    /\ UNCHANGED fmtVars

\* lines 260-273: run_subagent runs, without suspending, from its entry to the
\* await of gather
Dispatch(s) ==
    /\ leadPc = "tools"
    /\ calls[s].st = "called"
    /\ calls' = [calls EXCEPT ![s] = IssueAndGather(@)]
    /\ UNCHANGED <<api_key, leadPc, rounds, report, searches, searched, networkCalled>>
    /\ UNCHANGED fmtVars

\* the worker model calls search_tool (lines 134-160)
WorkerSearch(s, i) ==
    /\ leadPc = "tools"
    /\ calls[s].inv[i].st = "running"
    /\ searches < MaxSearches
    /\ \E query \in Queries, max_results \in {DefaultMaxResults} :
         \E provider \in ProviderOutcomes(max_results) :
            LET r == search_tool(query, max_results, api_key, provider)
                failed == search_web(query, max_results, api_key, provider).raised
            IN  calls' = [calls EXCEPT ![s].inv[i] =
                    IF r.raised
                    THEN [@ EXCEPT !.st = "failed", !.cause = "tool",
                                   !.searchFailed = failed]
                    ELSE [@ EXCEPT !.tool = r.value, !.searchFailed = failed]]
    /\ searches' = searches + 1
    /\ searched' = TRUE
    /\ networkCalled' = (networkCalled \/ NetworkReached(api_key))
    /\ UNCHANGED <<api_key, leadPc, rounds, report>>
    /\ UNCHANGED fmtVars

\* research_agent.run returns its result
WorkerComplete(s, i) ==
    /\ leadPc = "tools"
    /\ calls[s].inv[i].st = "running"
    /\ calls' = [calls EXCEPT ![s].inv[i].st = "done",
                              ![s].order = Append(@, i)]
    /\ UNCHANGED <<api_key, leadPc, rounds, report, searches, searched, networkCalled>>
    /\ UNCHANGED fmtVars

\* research_agent.run raises: the model backend failed
WorkerFail(s, i) ==
    /\ leadPc = "tools"
    /\ calls[s].inv[i].st = "running"
    /\ calls' = [calls EXCEPT ![s].inv[i].st = "failed",
                              ![s].inv[i].cause = "model",
                              ![s].order = Append(@, i)]
    /\ UNCHANGED <<api_key, leadPc, rounds, report, searches, searched, networkCalled>>
    /\ UNCHANGED fmtVars

\* lines 266-277: gather resolved, run_subagent returns the outputs
ReturnCall(s) ==
    /\ leadPc = "tools"
    /\ calls[s].st = "awaiting"
    /\ AllFinished(calls[s])
    /\ calls' = [calls EXCEPT ![s].st = "returned",
                              ![s].results = GatherResults(calls[s])]
    /\ UNCHANGED <<api_key, leadPc, rounds, report, searches, searched, networkCalled>>
    /\ UNCHANGED fmtVars

\* line 266: gather raised on the first failed invocation, without waiting for
\* the others; the exception leaves run_subagent, lead_agent.run and main
RaiseCall(s) ==
    /\ leadPc = "tools"
    /\ calls[s].st = "awaiting"
    /\ AnyFailed(calls[s])
    /\ calls' = [calls EXCEPT ![s].st = "failed"]
    /\ leadPc' = "aborted"
    /\ UNCHANGED <<api_key, rounds, report, searches, searched, networkCalled>>
    /\ UNCHANGED fmtVars

\* every tool call of the response returned: the findings go back to the model
LeadCollect ==
    /\ leadPc = "tools"
    /\ \A s \in DOMAIN calls : calls[s].st = "returned"
    /\ calls' = <<>>
    /\ leadPc' = "model"
    /\ UNCHANGED <<api_key, rounds, report, searches, searched, networkCalled>>
    /\ UNCHANGED fmtVars

\* lines 281-282: the lead model answers with text; main prints it
LeadFinalize ==
    /\ leadPc = "model"
    /\ leadPc' = "done"
    /\ report' = TRUE
    /\ UNCHANGED <<api_key, rounds, calls, searches, searched, networkCalled>>
    /\ UNCHANGED fmtVars

\* line 281: lead_agent.run raises: the model backend failed
LeadModelFail ==
    /\ leadPc = "model"
    /\ leadPc' = "aborted"
    /\ UNCHANGED <<api_key, rounds, calls, report, searches, searched, networkCalled>>
    /\ UNCHANGED fmtVars

\* line 284: once the exception has left lead_agent.run and main, asyncio.run
\* cancels what is still pending
Shutdown ==
    /\ leadPc = "aborted"
    /\ \E s \in DOMAIN calls : \/ calls[s].st \in {"called", "awaiting"}
                               \/ \E i \in DOMAIN calls[s].inv : calls[s].inv[i].st = "running"
    /\ calls' = [s \in DOMAIN calls |->
                    [calls[s] EXCEPT
                        !.st = IF @ \in {"called", "awaiting"} THEN "cancelled" ELSE @,
                        !.inv = [i \in DOMAIN @ |->
                                    [@[i] EXCEPT !.st = IF @ = "running"
                                                        THEN "cancelled" ELSE @]]]]
    /\ UNCHANGED <<api_key, leadPc, rounds, report, searches, searched, networkCalled>>
    /\ UNCHANGED fmtVars

Next ==
    \/ LeadRequestTools
    \/ \E s \in DOMAIN calls : Dispatch(s)
    \/ \E s \in DOMAIN calls : \E i \in DOMAIN calls[s].inv : WorkerSearch(s, i)
    \/ \E s \in DOMAIN calls : \E i \in DOMAIN calls[s].inv : WorkerComplete(s, i)
    \/ \E s \in DOMAIN calls : \E i \in DOMAIN calls[s].inv : WorkerFail(s, i)
    \/ \E s \in DOMAIN calls : ReturnCall(s)
    \/ \E s \in DOMAIN calls : RaiseCall(s)
    \/ LeadCollect
    \/ LeadFinalize
    \/ LeadModelFail
    \/ Shutdown

Spec == Init /\ [][Next]_vars

----------------------------------------------------------------------------
(* Specification of the formatter alone *)

InitIdleRun ==
    /\ api_key = None
    /\ leadPc = "done"
    /\ rounds = 0
    /\ calls = <<>>
    /\ report = FALSE
    /\ searches = 0
    /\ searched = FALSE
    /\ networkCalled = FALSE

InitFormat ==
    /\ search_results \in SearchResults
    /\ content_list = <<>>
    /\ fmtPc = "input"
    /\ InitIdleRun

\* line 150: content_list = format_search_results(search_results)
Format ==
    /\ fmtPc = "input"
    /\ content_list' = format_search_results(search_results)
    /\ fmtPc' = "formatted"
    /\ UNCHANGED <<search_results>>
    /\ UNCHANGED runVars

NextFormat == Format

SpecFormat == InitFormat /\ [][NextFormat]_vars

----------------------------------------------------------------------------
(* Claims about format_search_results, checked under SpecFormat *)

ResultsOf(sr) == IF "results" \in DOMAIN sr THEN sr["results"] ELSE <<>>

SummaryExpected(sr) == "answer" \in DOMAIN sr /\ sr["answer"] \notin {"", None}

KeptEntries(sr) ==
    {i \in DOMAIN ResultsOf(sr) :
        /\ "content" \in DOMAIN ResultsOf(sr)[i]
        /\ ResultsOf(sr)[i]["content"] \notin {"", None}}

ExpectedSourceBlock(e) ==
    <<"Source: ", IF "title" \in DOMAIN e THEN e["title"] ELSE "Unknown Title", " (",
      IF "url" \in DOMAIN e THEN e["url"] ELSE "Unknown URL", ")\nContent: ",
      e["content"]>>

\* C10: for every SearchResult, format_search_results yields the AI-summary
\* block first exactly when answer is present and non-empty, then one source
\* block per entry of results with non-empty content, in provider order;
\* entries without content yield no block, and a missing title or url is
\* rendered as "Unknown Title" / "Unknown URL".
C10_FormatBlocks ==
    fmtPc = "formatted" =>
        LET sr == search_results
            off == IF SummaryExpected(sr) THEN 1 ELSE 0
        IN  /\ Len(content_list) = off + Cardinality(KeptEntries(sr))
            /\ SummaryExpected(sr) => content_list[1] = <<"AI Summary: ", sr["answer"]>>
            /\ \A i \in KeptEntries(sr) :
                 content_list[off + Cardinality({j \in KeptEntries(sr) : j <= i})]
                     = ExpectedSourceBlock(ResultsOf(sr)[i])

\* a summary, an entry without content that was skipped, and an entry whose
\* title and url are missing, formatted
C10_Witness ==
    /\ fmtPc = "formatted"
    /\ SummaryExpected(search_results)
    /\ Len(ResultsOf(search_results)) = 2
    /\ "content" \notin DOMAIN ResultsOf(search_results)[1]
    /\ DOMAIN ResultsOf(search_results)[2] = {"content"}
    /\ ResultsOf(search_results)[2]["content"] = "C1"
    /\ Len(content_list) = 2

----------------------------------------------------------------------------
(* Claims about run_subagent, checked under Spec *)

ExpectedPrompt(task) ==
    <<"Research Task: ", task.description, "\nFocus Area: ", task.focus_area>>

\* C1: a run_subagent call that returned holds exactly one finding per subtask
\* of its batch, and the i-th finding is the output of the invocation started
\* for the i-th subtask, whatever the order in which the invocations completed.
C1_FindingsAligned ==
    \A s \in DOMAIN calls :
        calls[s].st = "returned" =>
            /\ Len(calls[s].results) = Len(calls[s].batch)
            /\ \A i \in DOMAIN calls[s].results :
                 /\ calls[s].results[i].by = i
                 /\ calls[s].results[i].prompt = ExpectedPrompt(calls[s].batch[i])

\* a call returned whose second invocation completed before its first
C1_Witness ==
    \E s \in DOMAIN calls :
        /\ calls[s].st = "returned"
        /\ calls[s].order = <<2, 1>>
        /\ calls[s].results[1].prompt # calls[s].results[2].prompt

\* C2: a run_subagent call has returned only if every invocation launched for
\* its batch has completed: when it returns none is in flight, and until it
\* returns it has handed back no results.
C2_FanInBarrier ==
    \A s \in DOMAIN calls :
        /\ calls[s].st = "returned" =>
              \A i \in DOMAIN calls[s].batch :
                  /\ i \in DOMAIN calls[s].inv
                  /\ calls[s].inv[i].st # "running"
        /\ calls[s].st # "returned" => calls[s].results = <<>>

\* a call of two subtasks returned after both its invocations completed
C2_Witness ==
    \E s \in DOMAIN calls :
        /\ calls[s].st = "returned"
        /\ Len(calls[s].batch) = 2
        /\ Len(calls[s].order) = 2

\* C3: when an invocation of a batch failed, the run_subagent call for that
\* batch does not return: it hands back no findings, and no returned result
\* ever stands for a failed invocation.
C3_FailureFailsBatch ==
    \A s \in DOMAIN calls :
        /\ (\E i \in DOMAIN calls[s].inv : calls[s].inv[i].st = "failed") =>
              /\ calls[s].st # "returned"
              /\ calls[s].results = <<>>
        /\ \A k \in DOMAIN calls[s].results : calls[s].results[k].ok

\* a call failed although another invocation of its batch had produced output
C3_Witness ==
    \E s \in DOMAIN calls :
        /\ calls[s].st = "failed"
        /\ \E i \in DOMAIN calls[s].inv : calls[s].inv[i].st = "failed"
        /\ \E i \in DOMAIN calls[s].inv : calls[s].inv[i].st = "done"
        /\ calls[s].results = <<>>

C9_EmptyBatchRejected ==
    \A s \in DOMAIN calls :
        calls[s].st = "returned" => calls[s].results # <<>>

\* C6 (as claimed): the number of run_subagent calls of a run never exceeds
\* 3, one initial round and at most FollowUpCap follow-up rounds.
C6_AtMostThreeRounds == rounds <= 1 + FollowUpCap

InFlight(s) == \E i \in DOMAIN calls[s].inv : calls[s].inv[i].st = "running"

\* C7 (as claimed): invocations belonging to two different run_subagent calls
\* are never in flight at the same time.
C7_RoundsSequential ==
    \A s \in DOMAIN calls : \A t \in DOMAIN calls :
        s # t => ~(InFlight(s) /\ InFlight(t))

----------------------------------------------------------------------------
(* Claims about search_tool, checked under Spec *)

ErrorPrefix == "Error performing web search: "

\* C4: search_tool never raises into the invocation that called it: whenever
\* search_web failed, for a missing credential or a provider failure, the
\* invocation holds a tool result beginning with "Error performing web
\* search: " and was not aborted by the tool.
C4_SearchToolNeverRaises ==
    \A s \in DOMAIN calls : \A i \in DOMAIN calls[s].inv :
        /\ calls[s].inv[i].cause # "tool"
        /\ calls[s].inv[i].searchFailed =>
              /\ calls[s].inv[i].tool # <<>>
              /\ Head(calls[s].inv[i].tool) = ErrorPrefix

\* an invocation completed after the provider failed under its search
C4_Witness ==
    \E s \in DOMAIN calls : \E i \in DOMAIN calls[s].inv :
        /\ networkCalled
        /\ calls[s].inv[i].searchFailed
        /\ calls[s].inv[i].st = "done"
        /\ calls[s].inv[i].tool =
              <<ErrorPrefix, "Tavily API request failed: ", "timed out">>

KeylessSearch == searched /\ api_key \in {None, ""}

\* C5 (as claimed): once a search was attempted with the credential missing,
\* the run emits no report.
C5_ConfigErrorFatal == KeylessSearch => ~report

\* C5 (amended): once a search was attempted with the credential missing, no
\* network call was made and every tool result a Worker Agent holds is the
\* configuration error as text.
C5_ConfigErrorAbsorbed ==
    KeylessSearch =>
        /\ ~networkCalled
        /\ \A s \in DOMAIN calls : \A i \in DOMAIN calls[s].inv :
             calls[s].inv[i].tool \in
                 {<<>>,
                  <<ErrorPrefix, "TAVILY_API_KEY environment variable not set. ",
                    "Get your API key from https://app.tavily.com/home">>}

\* a search was attempted with no credential and the run still printed a report
C5_Witness == KeylessSearch /\ report /\ leadPc = "done"

=============================================================================
